---- MODULE Spec2Model ----
(***************************************************************************)
(* A model of kel-cluster's resource lifecycle code:                       *)
(*   - Cluster.create / Cluster.destroy and ClusterNodes (cluster.py),     *)
(*   - KubernetesResource.delete_namespace and the namespace / daemon-set  *)
(*     resources that use it (components.py),                              *)
(*   - ComponentResource and Router: create / upgrade / destroy and the    *)
(*     deployment key (components.py).                                     *)
(* The cluster API client (pykube) and the provider driver are the         *)
(* environment: every call on them may fail, and the calls made are kept   *)
(* in a log so that orderings can be stated.                               *)
(***************************************************************************)
EXTENDS Integers, Sequences, FiniteSets, TLC

VARIABLES
    \* ---- Cluster orchestrator (cluster.py) ----
    orchPc,      \* position of the run: idle, loop, stage, nodes, group, done, failed
    orchOp,      \* "none", "create" or "destroy"
    orchIdx,     \* index of the for loop of Cluster.create / Cluster.destroy
    ngIdx,       \* index of the for loop of ClusterNodes.create / destroy
    nGroups,     \* len(config["resources"]["nodes"])
    calls,       \* log of the provider-resource calls of the current run
    infra,       \* provider resources whose create has returned and that were not destroyed
    \* ---- namespace-scoped resources (components.py) ----
    nsPc,        \* idle, deleted, sleeping, returned, raised
    nsKind,      \* which resource class runs destroy()
    nsPresent,   \* the remote object exists
    nsTerminating, \* the remote object was asked to go away
    nsDeletes,   \* number of obj.delete() calls of the current destroy()
    nsSleeps,    \* number of time.sleep(1) calls of the current destroy()
    nsPollLog,   \* the answers of obj.exists() in the current destroy()
    \* ---- one platform component (components.py) ----
    manifest,    \* the component class and the documents of its manifest
    cfg,         \* the part of cluster.config the component reads
    remote,      \* the cluster and provider state the component acts on
    cache,       \* the component object's _running_rc attribute: <<>> or <<rc>>
    lastOp,      \* the last call on the component
    result,      \* how it ended
    trace,       \* the API and provider calls it made, in order
    clean,       \* every lifecycle call so far returned normally, nobody else wrote
    steps        \* number of calls and changes so far

orchVars == <<orchPc, orchOp, orchIdx, ngIdx, nGroups, calls, infra>>
nsVars == <<nsPc, nsKind, nsPresent, nsTerminating, nsDeletes, nsSleeps, nsPollLog>>
compVars == <<manifest, cfg, remote, cache, lastOp, result, trace, clean, steps>>
vars == <<orchVars, nsVars, compVars>>

\* ------------------------------------------------------------------------
\* Bounds of the model
\* ------------------------------------------------------------------------
MaxGroups == 2
MaxPolls == 4
MaxVer == 1
MaxSteps == 5

\* ------------------------------------------------------------------------
\* Cluster orchestrator
\* ------------------------------------------------------------------------

\* Cluster.components
components == <<"network", "etcd", "master", "nodes">>

\* Mutant of reversed: the list is not reversed.
reversed_identity(s) == s

\* Python's reversed()
reversed(s) == [i \in 1..Len(s) |-> s[Len(s) + 1 - i]]

\* The list the for loop of the run iterates over.
RunOrder(op) == IF op = "create" THEN components ELSE reversed(components)

Ev(ev, who, n) == [ev |-> ev, who |-> who, n |-> n]
Res(who, n) == [who |-> who, n |-> n]

\* What a provider resource's create()/destroy() leaves behind when it returns.
Applied(op, set, r) == IF op = "create" THEN set \cup {r} ELSE set \ {r}

OrchInit ==
    /\ orchPc = "idle"
    /\ orchOp = "none"
    /\ orchIdx = 1
    /\ ngIdx = 1
    /\ nGroups \in 0..MaxGroups
    /\ calls = <<>>
    /\ infra = {}

\* Cluster.create(): enter the for loop over self.components
ClusterCreate ==
    /\ orchPc = "idle"
    /\ orchPc' = "loop"
    /\ orchOp' = "create"
    /\ orchIdx' = 1
    /\ ngIdx' = 1
    /\ calls' = <<>>
    /\ UNCHANGED <<nGroups, infra>>
    /\ UNCHANGED <<nsVars, compVars>>

\* Cluster.destroy(): enter the for loop over reversed(self.components)
ClusterDestroy ==
    /\ orchPc = "idle"
    /\ orchPc' = "loop"
    /\ orchOp' = "destroy"
    /\ orchIdx' = 1
    /\ ngIdx' = 1
    /\ calls' = <<>>
    /\ UNCHANGED <<nGroups, infra>>
    /\ UNCHANGED <<nsVars, compVars>>

\* self.get_provider_resource(c).create() / .destroy() is invoked
StageCall ==
    /\ orchPc = "loop"
    /\ orchIdx <= Len(RunOrder(orchOp))
    /\ LET c == RunOrder(orchOp)[orchIdx] IN
        /\ calls' = Append(calls, Ev("call", c, 0))
        /\ orchPc' = IF c = "nodes" THEN "nodes" ELSE "stage"
    /\ ngIdx' = 1
    /\ UNCHANGED <<orchOp, orchIdx, nGroups, infra>>
    /\ UNCHANGED <<nsVars, compVars>>

\* the provider resource's create() / destroy() returns
StageReturn ==
    /\ orchPc = "stage"
    /\ LET c == RunOrder(orchOp)[orchIdx] IN
        /\ calls' = Append(calls, Ev("ret", c, 0))
        /\ infra' = Applied(orchOp, infra, Res(c, 0))
    /\ orchIdx' = orchIdx + 1
    /\ orchPc' = "loop"
    /\ UNCHANGED <<orchOp, ngIdx, nGroups>>
    /\ UNCHANGED <<nsVars, compVars>>

\* Mutant of StageRaise: what the run did so far is undone when a stage raises.
StageRaise_rollback ==
    /\ orchPc = "stage"
    /\ calls' = Append(calls, Ev("raise", RunOrder(orchOp)[orchIdx], 0))
    /\ orchPc' = "failed"
    /\ infra' = IF orchOp = "create" THEN {}
                ELSE { Res(components[i], 0) : i \in 1..3 }
    /\ UNCHANGED <<orchOp, orchIdx, ngIdx, nGroups>>
    /\ UNCHANGED <<nsVars, compVars>>

\* the provider resource's create() / destroy() raises: nothing catches it
StageRaise ==
    /\ orchPc = "stage"
    /\ calls' = Append(calls, Ev("raise", RunOrder(orchOp)[orchIdx], 0))
    /\ orchPc' = "failed"
    /\ UNCHANGED <<orchOp, orchIdx, ngIdx, nGroups, infra>>
    /\ UNCHANGED <<nsVars, compVars>>

\* ClusterNodes.create() / destroy(): node_group.create() of the next group
NodeGroupCall ==
    /\ orchPc = "nodes"
    /\ ngIdx <= nGroups
    /\ calls' = Append(calls, Ev("call", "nodegroup", ngIdx))
    /\ orchPc' = "group"
    /\ UNCHANGED <<orchOp, orchIdx, ngIdx, nGroups, infra>>
    /\ UNCHANGED <<nsVars, compVars>>

NodeGroupReturn ==
    /\ orchPc = "group"
    /\ calls' = Append(calls, Ev("ret", "nodegroup", ngIdx))
    /\ infra' = Applied(orchOp, infra, Res("nodegroup", ngIdx))
    /\ ngIdx' = ngIdx + 1
    /\ orchPc' = "nodes"
    /\ UNCHANGED <<orchOp, orchIdx, nGroups>>
    /\ UNCHANGED <<nsVars, compVars>>

\* a node group's call raises: neither ClusterNodes nor Cluster catches it
NodeGroupRaise ==
    /\ orchPc = "group"
    /\ calls' = Append(Append(calls, Ev("raise", "nodegroup", ngIdx)),
                       Ev("raise", "nodes", 0))
    /\ orchPc' = "failed"
    /\ UNCHANGED <<orchOp, orchIdx, ngIdx, nGroups, infra>>
    /\ UNCHANGED <<nsVars, compVars>>

\* Mutant of NodesReturn: the method returns before its loop is exhausted.
NodesReturn_early ==
    /\ orchPc = "nodes"
    /\ calls' = Append(calls, Ev("ret", "nodes", 0))
    /\ orchIdx' = orchIdx + 1
    /\ orchPc' = "loop"
    /\ UNCHANGED <<orchOp, ngIdx, nGroups, infra>>
    /\ UNCHANGED <<nsVars, compVars>>

\* ClusterNodes.create() / destroy() returns after its for loop
NodesReturn ==
    /\ orchPc = "nodes"
    /\ ngIdx > nGroups
    /\ calls' = Append(calls, Ev("ret", "nodes", 0))
    /\ orchIdx' = orchIdx + 1
    /\ orchPc' = "loop"
    /\ UNCHANGED <<orchOp, ngIdx, nGroups, infra>>
    /\ UNCHANGED <<nsVars, compVars>>

\* the for loop of Cluster.create() / destroy() is exhausted: the run returns
RunReturn ==
    /\ orchPc = "loop"
    /\ orchIdx > Len(RunOrder(orchOp))
    /\ orchPc' = "done"
    /\ UNCHANGED <<orchOp, orchIdx, ngIdx, nGroups, calls, infra>>
    /\ UNCHANGED <<nsVars, compVars>>

\* the caller starts over with a Cluster object for the next run
NextRun ==
    /\ orchPc \in {"done", "failed"}
    /\ orchPc' = "idle"
    /\ UNCHANGED <<orchOp, orchIdx, ngIdx, nGroups, calls, infra>>
    /\ UNCHANGED <<nsVars, compVars>>

OrchNext ==
    \/ ClusterCreate
    \/ ClusterDestroy
    \/ StageCall
    \/ StageReturn
    \/ StageRaise
    \/ NodeGroupCall
    \/ NodeGroupReturn
    \/ NodeGroupRaise
    \/ NodesReturn
    \/ RunReturn
    \/ NextRun

\* ------------------------------------------------------------------------
\* Namespace-scoped resources
\* ------------------------------------------------------------------------
NsInit ==
    /\ nsPc = "idle"
    /\ nsKind = "none"
    /\ nsPresent \in BOOLEAN
    /\ nsTerminating = FALSE
    /\ nsDeletes = 0
    /\ nsSleeps = 0
    /\ nsPollLog = <<>>

NsIdle ==
    /\ nsPc = "idle"
    /\ nsKind = "none"
    /\ nsPresent = FALSE
    /\ nsTerminating = FALSE
    /\ nsDeletes = 0
    /\ nsSleeps = 0
    /\ nsPollLog = <<>>

\* The classes whose destroy() goes through delete_namespace.
NsKinds == {"KelSystem", "KelBuilds", "LogAgent"}

\* KelSystem.create / KelBuilds.create / LogAgent.create: obj.create()
NsCreate ==
    /\ nsPc = "idle"
    /\ ~nsPresent
    /\ nsPresent' = TRUE
    /\ nsTerminating' = FALSE
    /\ UNCHANGED <<nsPc, nsKind, nsDeletes, nsSleeps, nsPollLog>>
    /\ UNCHANGED <<orchVars, compVars>>

\* destroy(): get_api_objs(...)[kind][0], then delete_namespace: obj.delete()
\* returns; the cluster removes the object later.
NsDestroyDelete ==
    /\ nsPc = "idle"
    /\ \E k \in NsKinds : nsKind' = k
    /\ nsPc' = "deleted"
    /\ nsDeletes' = 1
    /\ nsSleeps' = 0
    /\ nsPollLog' = <<>>
    /\ nsTerminating' = nsPresent
    /\ UNCHANGED nsPresent
    /\ UNCHANGED <<orchVars, compVars>>

\* destroy(): obj.delete() raises (the API call fails): destroy() raises
NsDestroyRaise ==
    /\ nsPc = "idle"
    /\ \E k \in NsKinds : nsKind' = k
    /\ nsPc' = "raised"
    /\ nsDeletes' = 1
    /\ nsSleeps' = 0
    /\ nsPollLog' = <<>>
    /\ UNCHANGED <<nsPresent, nsTerminating>>
    /\ UNCHANGED <<orchVars, compVars>>

\* Mutant of AfterPoll: the loop is left after the first poll whatever it says.
AfterPoll_once(present) == "returned"

\* Mutant of AfterPoll: the loop is never left.
AfterPoll_never(present) == "sleeping"

\* `while obj.exists():` the loop goes on while the poll says present.
AfterPoll(present) == IF present THEN "sleeping" ELSE "returned"

\* delete_namespace: the loop condition obj.exists() is evaluated
NsPoll ==
    /\ nsPc = "deleted"
    /\ Len(nsPollLog) < MaxPolls
    /\ nsPollLog' = Append(nsPollLog, nsPresent)
    /\ nsPc' = AfterPoll(nsPresent)
    /\ UNCHANGED <<nsKind, nsPresent, nsTerminating, nsDeletes, nsSleeps>>
    /\ UNCHANGED <<orchVars, compVars>>

\* delete_namespace: time.sleep(1), the loop body
NsSleep ==
    /\ nsPc = "sleeping"
    /\ nsSleeps' = nsSleeps + 1
    /\ nsPc' = "deleted"
    /\ UNCHANGED <<nsKind, nsPresent, nsTerminating, nsDeletes, nsPollLog>>
    /\ UNCHANGED <<orchVars, compVars>>

\* the cluster finishes the removal of an object that was deleted
NsGone ==
    /\ nsPresent
    /\ nsTerminating
    /\ nsPresent' = FALSE
    /\ nsTerminating' = FALSE
    /\ UNCHANGED <<nsPc, nsKind, nsDeletes, nsSleeps, nsPollLog>>
    /\ UNCHANGED <<orchVars, compVars>>

\* destroy() has returned or raised: the caller may call again
NsAgain ==
    /\ nsPc \in {"returned", "raised"}
    /\ nsPc' = "idle"
    /\ UNCHANGED <<nsKind, nsPresent, nsTerminating, nsDeletes, nsSleeps, nsPollLog>>
    /\ UNCHANGED <<orchVars, compVars>>

NsNext ==
    \/ NsCreate
    \/ NsDestroyDelete
    \/ NsDestroyRaise
    \/ NsPoll
    \/ NsSleep
    \/ NsGone
    \/ NsAgain

\* ------------------------------------------------------------------------
\* One platform component: ComponentResource and Router
\* ------------------------------------------------------------------------

SecretNames == {"s1"}
Pems == {"pemA", "pemB"}
NoVolumes == <<>>
EmptyDir == [kind |-> "emptyDir", secretName |-> ""]
SecretVolume(s) == [kind |-> "secret", secretName |-> s]

\* The component classes of components.py that the model runs, with the
\* documents their manifests hold (the manifests are input data).
Manifests == {
    [cls |-> "kube-dns", replicas |-> 1, requires_disk |-> FALSE, router |-> FALSE,
     secrets |-> <<>>, services |-> <<"svc">>, volumes |-> NoVolumes],
    [cls |-> "router", replicas |-> 3, requires_disk |-> FALSE, router |-> TRUE,
     secrets |-> <<"s1">>, services |-> <<"svc">>,
     volumes |-> <<EmptyDir, SecretVolume("s1")>>],
    [cls |-> "api-database", replicas |-> 1, requires_disk |-> TRUE, router |-> FALSE,
     secrets |-> <<"s1">>, services |-> <<"svc">>,
     volumes |-> <<SecretVolume("s2")>>],
    [cls |-> "api-worker", replicas |-> 4, requires_disk |-> FALSE, router |-> FALSE,
     secrets |-> <<>>, services |-> <<>>, volumes |-> NoVolumes] }

InSeq(x, s) == \E i \in 1..Len(s) : s[i] = x

\* The configurations of a component: only what its manifest reads varies.
Configs(m) ==
    { c \in [ver : 0..MaxVer, data : [SecretNames -> Pems], disk : BOOLEAN] :
        /\ \A s \in SecretNames : ~InSeq(s, m.secrets) => c.data[s] = "pemA"
        /\ ~m.requires_disk => c.disk = FALSE }

EmptyRemote == [rcs |-> {}, secrets |-> {}, services |-> {}, disk |-> FALSE, lb |-> FALSE]

\* ---- the rendered documents (get_api_objs) ----

\* the ReplicationController document of the manifest, as rendered
RenderRC(m, c) ==
    [name |-> m.cls, replicas |-> m.replicas, ver |-> c.ver, volumes |-> m.volumes]

\* the Secret documents of the manifest, as rendered
RenderSecrets(m, c) ==
    [i \in 1..Len(m.secrets) |-> [name |-> m.secrets[i], data |-> c.data[m.secrets[i]]]]

RenderServices(m) == [i \in 1..Len(m.services) |-> [name |-> m.services[i]]]

\* ---- the deployment key ----

\* json.dumps(obj, sort_keys=True): the fields in the order of their names
DumpsRC(d) == <<d.name, d.replicas, d.ver, d.volumes>>
DumpsSecret(d) == <<d.data, d.name>>

\* hashlib.sha1(...).hexdigest()[:8], taken as free of collisions: the digest
\* stands for the text it was computed from.
Digest(serialized) == serialized

\* next((s for s in secrets if s.name == name), None) as a list of 0 or 1
FirstNamed(secrets, name) ==
    LET hits == { j \in 1..Len(secrets) : secrets[j].name = name }
    IN IF hits = {} THEN <<>>
       ELSE <<secrets[CHOOSE j \in hits : \A k \in hits : j <= k]>>

RECURSIVE ReferencedSecrets(_, _, _)
\* the loop over the volumes of the workload of generate_deployment_key
ReferencedSecrets(vols, secrets, i) ==
    IF i > Len(vols) THEN <<>>
    ELSE (IF vols[i].kind = "secret"
          THEN FirstNamed(secrets, vols[i].secretName) ELSE <<>>)
         \o ReferencedSecrets(vols, secrets, i + 1)

RECURSIVE JoinSecrets(_, _)
JoinSecrets(objs, i) ==
    IF i > Len(objs) THEN <<>> ELSE DumpsSecret(objs[i]) \o JoinSecrets(objs, i + 1)

\* ---- the handles of get_api_objs ----

\* obj.exists() and obj.reload() on the handle of a rendered Secret: the
\* live object of that name, as a list of 0 or 1
LiveSecret(R, doc) ==
    IF \E x \in R.secrets : x.name = doc.name
    THEN <<CHOOSE x \in R.secrets : x.name = doc.name>> ELSE <<>>

\* the same on the handle of the rendered workload: the live workload under
\* the rendered name, which differs from the document by what the cluster
\* keeps of it, the replica count it was scaled to
LiveRC(R, doc) ==
    IF \E r \in R.rcs : r.suffix = <<>>
    THEN <<[doc EXCEPT !.replicas = (CHOOSE r \in R.rcs : r.suffix = <<>>).replicas]>>
    ELSE <<>>

\* Mutant of Shadow: `obj.obj = doc` is left out, the handle keeps what
\* reload() fetched.
Shadow_live(live, doc) == live

\* `obj.obj = doc` after reload(): the handle's obj is the rendered document
Shadow(live, doc) == doc

\* the obj of one handle: the document, reloaded and overwritten when the
\* object exists in the cluster
HandleObj(doc, live) == IF live = <<>> THEN doc ELSE Shadow(live[1], doc)

\* KubernetesResource.get_api_objs: the handles by kind, in document order
get_api_objs(m, c, R) ==
    [ReplicationController |-> <<HandleObj(RenderRC(m, c), LiveRC(R, RenderRC(m, c)))>>,
     Secret |-> [i \in 1..Len(m.secrets) |->
                    HandleObj(RenderSecrets(m, c)[i],
                              LiveSecret(R, RenderSecrets(m, c)[i]))],
     Service |-> RenderServices(m)]

\* Mutant of generate_deployment_key: every secret of the manifest enters
\* the key, mounted by the workload or not.
generate_deployment_key_all_secrets(m, c, R) ==
    LET rc == get_api_objs(m, c, R).ReplicationController[1]
        secrets == get_api_objs(m, c, R).Secret
    IN Digest(DumpsRC(rc) \o JoinSecrets(secrets, 1))

\* ComponentResource.generate_deployment_key, called with the cluster as R
generate_deployment_key(m, c, R) ==
    LET rc == get_api_objs(m, c, R).ReplicationController[1]
        secrets == get_api_objs(m, c, R).Secret
        objs == ReferencedSecrets(rc.volumes, secrets, 1)
    IN Digest(DumpsRC(rc) \o JoinSecrets(objs, 1))

\* the workload handle of get_api_objs: the name is the rendered name and no
\* deployment label is set (<<>>)
UnstampedRC(m, c) ==
    [suffix |-> <<>>, deployment |-> <<>>, selector |-> <<>>, podlabel |-> <<>>,
     replicas |-> m.replicas]

\* ComponentResource.get_rc, called on the component with the cluster as it
\* is when the lifecycle call begins
get_rc(m, c) ==
    LET key == generate_deployment_key(m, c, remote) IN
    [suffix |-> key, deployment |-> key, selector |-> key, podlabel |-> key,
     replicas |-> m.replicas]

\* ---- the calls ----

Call(op, kind, obj) == [op |-> op, kind |-> kind, obj |-> obj]

\* one get_api_objs(): render, then exists()/reload() on every document
Read == Call("get_api_objs", "Read", <<>>)

RcKind == "ReplicationController"

HasRC(R, suffix) == \E r \in R.rcs : r.suffix = suffix
HasSecret(R, name) == \E x \in R.secrets : x.name = name

\* The calls that raise because of what the cluster holds: create of an
\* object that exists, update or scale of one that does not, a label query
\* that does not match exactly one object.
MustRaise(R, c) ==
    \/ c.kind = "Local" /\ c.obj.raises
    \/ c.op = "create" /\ c.kind = "Secret" /\ HasSecret(R, c.obj.name)
    \/ c.op = "create" /\ c.kind = "Service" /\ c.obj.name \in R.services
    \/ c.op = "create" /\ c.kind = RcKind /\ HasRC(R, c.obj.suffix)
    \/ c.op = "update" /\ c.kind = "Secret" /\ ~HasSecret(R, c.obj.name)
    \/ c.op = "scale" /\ c.kind = RcKind /\ ~HasRC(R, c.obj.suffix)
    \/ c.op = "query" /\ Cardinality(R.rcs) # 1
    \/ c.op = "rolling_update"
        /\ (HasRC(R, c.obj.new.suffix) \/ ~HasRC(R, c.obj.old.suffix))

\* What a call that returns leaves in the cluster or at the provider.
Effect(R, c) ==
    CASE c.op = "create" /\ c.kind = "Secret" ->
            [R EXCEPT !.secrets = @ \cup {c.obj}]
      [] c.op = "update" /\ c.kind = "Secret" ->
            [R EXCEPT !.secrets = { x \in @ : x.name # c.obj.name } \cup {c.obj}]
      [] c.op = "delete" /\ c.kind = "Secret" ->
            [R EXCEPT !.secrets = { x \in @ : x.name # c.obj.name }]
      [] c.op = "create" /\ c.kind = "Service" ->
            [R EXCEPT !.services = @ \cup {c.obj.name}]
      [] c.op = "delete" /\ c.kind = "Service" ->
            [R EXCEPT !.services = @ \ {c.obj.name}]
      [] c.op = "create" /\ c.kind = RcKind ->
            [R EXCEPT !.rcs = @ \cup {c.obj}]
      [] c.op = "scale" /\ c.kind = RcKind ->
            [R EXCEPT !.rcs = { IF r.suffix = c.obj.suffix
                                THEN [r EXCEPT !.replicas = 0] ELSE r : r \in @ }]
      [] c.op = "delete" /\ c.kind = RcKind ->
            [R EXCEPT !.rcs = { r \in @ : r.suffix # c.obj.suffix }]
      [] c.op = "rolling_update" ->
            [R EXCEPT !.rcs = { r \in @ : r.suffix # c.obj.old.suffix } \cup {c.obj.new}]
      [] c.op = "create_disk" -> [R EXCEPT !.disk = TRUE]
      [] c.op = "create_loadbalancer" -> [R EXCEPT !.lb = TRUE]
      [] c.op = "destroy_loadbalancer" -> [R EXCEPT !.lb = FALSE]
      [] OTHER -> R

\* The calls that write to the cluster or go to the provider: the API or the
\* provider may fail any of them.
CanFail(c) == c.kind \notin {"Local", "Read"} /\ c.op # "query"

\* where a run of plan may be failed: nowhere (0), or at a call that can fail
FailPoints(plan) == {0} \cup { i \in 1..Len(plan) : CanFail(plan[i]) }

Logged(c, ok) == IF c.kind = "Local" THEN <<>> ELSE <<[call |-> c, ok |-> ok]>>

RECURSIVE Exec(_, _, _, _)
\* Run the calls of plan from the i-th on: a call raises when it must or when
\* the API or the provider fails it (failAt), and what raises ends the run,
\* since no method of the component catches anything.
Exec(R, plan, i, failAt) ==
    IF i > Len(plan) THEN [R |-> R, trace |-> <<>>, ok |-> TRUE]
    ELSE IF MustRaise(R, plan[i]) \/ (i = failAt /\ CanFail(plan[i]))
    THEN [R |-> R, trace |-> Logged(plan[i], FALSE), ok |-> FALSE]
    ELSE LET rest == Exec(Effect(R, plan[i]), plan, i + 1, failAt) IN
         [R |-> rest.R, trace |-> Logged(plan[i], TRUE) \o rest.trace, ok |-> rest.ok]

\* ---- the calls of each method, in the order the method makes them ----

ForEach(op, kind, objs) == [i \in 1..Len(objs) |-> Call(op, kind, objs[i])]

\* Mutant of disk: a missing disk configuration is not an error.
disk_lenient(m, c) == Call("disk", "Local", [raises |-> FALSE])

\* the `disk` property: raises when a disk is required and not configured
disk(m, c) == Call("disk", "Local", [raises |-> m.requires_disk /\ ~c.disk])

create_secrets(m, c) == <<Read>> \o ForEach("create", "Secret", RenderSecrets(m, c))
create_service(m, c) == <<Read>> \o ForEach("create", "Service", RenderServices(m))
\* Mutant of create_replication_controller: rc.update() in place of rc.create().
create_replication_controller_update(m, c) ==
    <<Read, Read, Read, Call("update", RcKind, get_rc(m, c))>>

\* get_rc() is three get_api_objs(), then rc.create()
create_replication_controller(m, c) ==
    <<Read, Read, Read, Call("create", RcKind, get_rc(m, c))>>

\* Mutant of component_create: the workload is created first.
component_create_rc_first(m, c) ==
    create_replication_controller(m, c)
    \o <<disk(m, c)>>
    \o (IF m.requires_disk /\ c.disk
        THEN <<Call("create_disk", "Provider", [name |-> m.cls])>> ELSE <<>>)
    \o <<Read>> \o (IF Len(m.secrets) > 0 THEN create_secrets(m, c) ELSE <<>>)
    \o <<Read>> \o (IF Len(m.services) > 0 THEN create_service(m, c) ELSE <<>>)

\* ComponentResource.create
component_create(m, c) ==
    <<disk(m, c)>>
    \o (IF m.requires_disk /\ c.disk
        THEN <<Call("create_disk", "Provider", [name |-> m.cls])>> ELSE <<>>)
    \o <<Read>> \o (IF Len(m.secrets) > 0 THEN create_secrets(m, c) ELSE <<>>)
    \o <<Read>> \o (IF Len(m.services) > 0 THEN create_service(m, c) ELSE <<>>)
    \o create_replication_controller(m, c)

\* Router.create_loadbalancer
create_loadbalancer ==
    Call("create_loadbalancer", "Provider", [name |-> "router", ports |-> <<80, 443>>])

\* Router.destroy_loadbalancer
destroy_loadbalancer == Call("destroy_loadbalancer", "Provider", [name |-> "router"])

\* Router.create
router_create(m, c) == <<create_loadbalancer>> \o component_create(m, c)

\* KubernetesResource.delete_rc
delete_rc(obj) ==
    <<Call("scale", RcKind, [obj EXCEPT !.replicas = 0]), Call("delete", RcKind, obj)>>

destroy_replication_controller(m, c) == <<Read>> \o delete_rc(UnstampedRC(m, c))
destroy_service(m, c) == <<Read>> \o ForEach("delete", "Service", RenderServices(m))
destroy_secrets(m, c) == <<Read>> \o ForEach("delete", "Secret", RenderSecrets(m, c))

\* Mutant of component_destroy: the services and secrets go first.
component_destroy_rc_last(m, c) ==
    <<Read>> \o (IF Len(m.services) > 0 THEN destroy_service(m, c) ELSE <<>>)
    \o <<Read>> \o (IF Len(m.secrets) > 0 THEN destroy_secrets(m, c) ELSE <<>>)
    \o destroy_replication_controller(m, c)

\* ComponentResource.destroy
component_destroy(m, c) ==
    destroy_replication_controller(m, c)
    \o <<Read>> \o (IF Len(m.services) > 0 THEN destroy_service(m, c) ELSE <<>>)
    \o <<Read>> \o (IF Len(m.secrets) > 0 THEN destroy_secrets(m, c) ELSE <<>>)

\* Mutant of router_destroy: the load balancer is destroyed first.
router_destroy_lb_first(m, c) == <<destroy_loadbalancer>> \o component_destroy(m, c)

\* Router.destroy
router_destroy(m, c) == component_destroy(m, c) \o <<destroy_loadbalancer>>

\* the workload self.running_rc evaluates to: the cached one if there is
\* one, else the one the label query finds
running_rc(R, held) ==
    IF held # <<>> THEN held[1]
    ELSE IF R.rcs # {} THEN CHOOSE r \in R.rcs : TRUE
    ELSE UnstampedRC([replicas |-> 0], <<>>)

\* the calls of the running_rc property
running_rc_calls(held) ==
    IF held = <<>> THEN <<Read, Call("query", RcKind, <<>>)>> ELSE <<>>

\* the value of can_upgrade()
can_upgrade(m, c, R, held) ==
    generate_deployment_key(m, c, R) # running_rc(R, held).deployment

\* Mutant of can_upgrade_calls: the secrets are brought up to date while the
\* question is answered.
can_upgrade_calls_updating(m, c, R, held) ==
    <<Read, Read>> \o running_rc_calls(held)
    \o <<Call("deployment_label", "Local",
              [raises |-> running_rc(R, held).deployment = <<>>])>>
    \o <<Read>> \o ForEach("update", "Secret", RenderSecrets(m, c))

\* the calls of can_upgrade(): the key, the running workload, its label
can_upgrade_calls(m, c, R, held) ==
    <<Read, Read>> \o running_rc_calls(held)
    \o <<Call("deployment_label", "Local",
              [raises |-> running_rc(R, held).deployment = <<>>])>>

update_secrets(m, c) ==
    <<Read>> \o (IF Len(m.secrets) > 0
                 THEN <<Read>> \o ForEach("update", "Secret", RenderSecrets(m, c))
                 ELSE <<>>)

\* RollingUpdater(self.api, self.running_rc, self.get_rc()).update()
rolling_update(m, c, R, held) ==
    <<Read, Read, Read,
      Call("rolling_update", "RollingUpdater",
           [old |-> running_rc(R, held), new |-> get_rc(m, c)])>>

\* Mutant of upgrade: the secrets are updated before can_upgrade() is asked.
upgrade_secrets_first(m, c, R, held) ==
    update_secrets(m, c)
    \o can_upgrade_calls(m, c, R, held)
    \o (IF ~can_upgrade(m, c, R, held) THEN <<>>
        ELSE rolling_update(m, c, R, held))

\* ComponentResource.upgrade
upgrade(m, c, R, held) ==
    can_upgrade_calls(m, c, R, held)
    \o (IF ~can_upgrade(m, c, R, held) THEN <<>>
        ELSE update_secrets(m, c) \o rolling_update(m, c, R, held))

\* _running_rc after a call: set by the first label query that returns
held_after(R, held, tr) ==
    IF held = <<>> /\ \E i \in 1..Len(tr) : tr[i].call.op = "query" /\ tr[i].ok
    THEN <<running_rc(R, <<>>)>> ELSE held

\* ---- the component's actions ----

CompInit ==
    /\ manifest \in Manifests
    /\ cfg \in Configs(manifest)
    /\ remote = EmptyRemote
    /\ cache = <<>>
    /\ lastOp = "none"
    /\ result = "ok"
    /\ trace = <<>>
    /\ clean = TRUE
    /\ steps = 0

\* the bookkeeping every call shares
Called(op) ==
    /\ steps < MaxSteps
    /\ steps' = steps + 1
    /\ lastOp' = op
    /\ UNCHANGED <<manifest, cfg>>
    /\ UNCHANGED <<orchVars, nsVars>>

\* create() of the component (Router.create for the router)
Create ==
    /\ LET plan == IF manifest.router THEN router_create(manifest, cfg)
                   ELSE component_create(manifest, cfg) IN
       \E f \in FailPoints(plan) :
          LET x == Exec(remote, plan, 1, f) IN
          /\ Called("create")
          /\ remote' = x.R
          /\ trace' = x.trace
          /\ result' = IF x.ok THEN "ok" ELSE "raised"
          /\ clean' = (clean /\ x.ok)
          /\ UNCHANGED cache

\* destroy() of the component (Router.destroy for the router)
Destroy ==
    LET plan == IF manifest.router THEN router_destroy(manifest, cfg)
                ELSE component_destroy(manifest, cfg) IN
    \E f \in FailPoints(plan) :
        LET x == Exec(remote, plan, 1, f) IN
        /\ Called("destroy")
        /\ remote' = x.R
        /\ trace' = x.trace
        /\ result' = IF x.ok THEN "ok" ELSE "raised"
        /\ clean' = (clean /\ x.ok)
        /\ UNCHANGED cache

\* upgrade()
Upgrade ==
    LET plan == upgrade(manifest, cfg, remote, cache) IN
    \E f \in FailPoints(plan) :
        LET x == Exec(remote, plan, 1, f) IN
        /\ Called("upgrade")
        /\ remote' = x.R
        /\ trace' = x.trace
        /\ result' = IF ~x.ok THEN "raised"
                     ELSE IF can_upgrade(manifest, cfg, remote, cache) THEN "ok"
                     ELSE "noop"
        /\ clean' = (clean /\ x.ok)
        /\ cache' = held_after(remote, cache, x.trace)

\* can_upgrade(), called on its own
CanUpgrade ==
    LET plan == can_upgrade_calls(manifest, cfg, remote, cache) IN
    \E f \in FailPoints(plan) :
        LET x == Exec(remote, plan, 1, f) IN
        /\ Called("can_upgrade")
        /\ remote' = x.R
        /\ trace' = x.trace
        /\ result' = IF ~x.ok THEN "raised"
                     ELSE IF can_upgrade(manifest, cfg, remote, cache) THEN "true"
                     ELSE "false"
        /\ clean' = FALSE
        /\ cache' = held_after(remote, cache, x.trace)

\* the methods that only ask, besides can_upgrade()
QueryOps == {"get_api_objs", "has_secrets", "has_service", "generate_deployment_key"}

\* their calls: generate_deployment_key() is two get_api_objs(), the others one
query_calls(q) == IF q = "generate_deployment_key" THEN <<Read, Read>> ELSE <<Read>>

\* what they return, as far as the model tells values apart
query_value(q, m, c, R) ==
    CASE q = "has_secrets" ->
            IF Len(get_api_objs(m, c, R).Secret) > 0 THEN "true" ELSE "false"
      [] q = "has_service" ->
            IF Len(get_api_objs(m, c, R).Service) > 0 THEN "true" ELSE "false"
      [] OTHER -> "ok"

\* get_api_objs(), has_secrets(), has_service() or generate_deployment_key(),
\* called on its own
Query ==
    \E q \in QueryOps :
        LET x == Exec(remote, query_calls(q), 1, 0) IN
        /\ Called(q)
        /\ remote' = x.R
        /\ trace' = x.trace
        /\ result' = query_value(q, manifest, cfg, remote)
        /\ UNCHANGED <<cache, clean>>

\* the configuration changes between two calls (set_version, an edited file)
SetConfig ==
    \E c \in Configs(manifest) \ {cfg} :
        /\ steps < MaxSteps
        /\ steps' = steps + 1
        /\ cfg' = c
        /\ lastOp' = "set_config"
        /\ result' = "ok"
        /\ trace' = <<>>
        /\ UNCHANGED <<manifest, remote, cache, clean>>
        /\ UNCHANGED <<orchVars, nsVars>>

\* the caller builds a new component object: nothing is cached on it
NewObject ==
    /\ steps < MaxSteps
    /\ steps' = steps + 1
    /\ cache # <<>>
    /\ cache' = <<>>
    /\ lastOp' = "new"
    /\ result' = "ok"
    /\ trace' = <<>>
    /\ UNCHANGED <<manifest, cfg, remote, clean>>
    /\ UNCHANGED <<orchVars, nsVars>>

\* somebody applies the workload document of the manifest as rendered, by
\* hand: a workload under the rendered name, with no deployment label
EnvApply ==
    /\ steps < MaxSteps
    /\ steps' = steps + 1
    /\ ~HasRC(remote, <<>>)
    /\ remote' = [remote EXCEPT !.rcs = @ \cup {UnstampedRC(manifest, cfg)}]
    /\ lastOp' = "env_apply"
    /\ result' = "ok"
    /\ trace' = <<>>
    /\ clean' = FALSE
    /\ UNCHANGED <<manifest, cfg, cache>>
    /\ UNCHANGED <<orchVars, nsVars>>

CompNext ==
    \/ Create
    \/ Destroy
    \/ Upgrade
    \/ CanUpgrade
    \/ Query
    \/ SetConfig
    \/ NewObject
    \/ EnvApply

CompIdle ==
    /\ manifest = CHOOSE m \in Manifests : m.cls = "kube-dns"
    /\ cfg = [ver |-> 0, data |-> [s \in SecretNames |-> "pemA"], disk |-> FALSE]
    /\ remote = EmptyRemote
    /\ cache = <<>>
    /\ lastOp = "none"
    /\ result = "ok"
    /\ trace = <<>>
    /\ clean = TRUE
    /\ steps = 0

OrchIdle ==
    /\ orchPc = "idle"
    /\ orchOp = "none"
    /\ orchIdx = 1
    /\ ngIdx = 1
    /\ nGroups = 1
    /\ calls = <<>>
    /\ infra = {}

\* The orchestrator alone: Cluster.create / Cluster.destroy runs.
InitCluster == OrchInit /\ NsIdle /\ CompIdle
SpecCluster == InitCluster /\ [][OrchNext]_vars

\* A namespace-scoped resource alone.
InitNs == NsInit /\ OrchIdle /\ CompIdle
SpecNs == InitNs /\ [][NsNext]_vars

\* A namespace-scoped resource alone, with the thread that runs destroy()
\* scheduled: the loop condition is evaluated and time.sleep(1) returns.
\* Nothing is assumed about when the cluster removes the object.
SpecNsLive == InitNs /\ [][NsNext]_vars /\ WF_vars(NsPoll) /\ WF_vars(NsSleep)

\* One platform component alone.
Init == CompInit /\ OrchIdle /\ NsIdle
Spec == Init /\ [][CompNext]_vars

\* ------------------------------------------------------------------------
\* Claims
\* ------------------------------------------------------------------------

CreateOrder == <<"network", "etcd", "master", "nodes">>
DestroyOrder == <<"nodes", "master", "etcd", "network">>

\* the events of the run on the four provider resources (not on node groups)
StageEvents == SelectSeq(calls, LAMBDA e : e.who # "nodegroup")

\* C1: in every run of Cluster.create() the provider resources are invoked
\* one after another in the order network, etcd, master, nodes, each only
\* after the one before it has returned; in every run of Cluster.destroy()
\* in the order nodes, master, etcd, network.
C1_StageOrder ==
    LET s == StageEvents
        ord == IF orchOp = "create" THEN CreateOrder ELSE DestroyOrder
    IN \A i \in 1..Len(s) :
        /\ i <= 2 * Len(ord)
        /\ s[i].who = ord[(i + 1) \div 2]
        /\ (i % 2 = 1) <=> (s[i].ev = "call")
        /\ (i % 2 = 1 /\ i > 1) => s[i - 1].ev = "ret"

C1_Witness ==
    /\ orchPc = "done"
    /\ orchOp = "destroy"
    /\ nGroups = 2
    /\ Len(StageEvents) = 8
    /\ infra = {}
    /\ Len(calls) = 12

\* C10: destroy() of a namespace-scoped or daemon-set resource returns only
\* right after a poll that said absent, having called delete once and slept
\* once for every poll that said present.
C10_PollUntilAbsent ==
    nsPc = "returned" =>
        /\ nsDeletes = 1
        /\ Len(nsPollLog) >= 1
        /\ nsPollLog[Len(nsPollLog)] = FALSE
        /\ \A i \in 1..(Len(nsPollLog) - 1) : nsPollLog[i] = TRUE
        /\ nsSleeps = Len(nsPollLog) - 1
        /\ ~nsPresent

\* the object disappears after the second poll: two wait iterations
C10_Witness ==
    /\ nsPc = "returned"
    /\ nsPollLog = <<TRUE, TRUE, FALSE>>
    /\ nsSleeps = 2

\* destroy() is inside delete_namespace: delete() returned, the wait goes on
InWait == nsPc \in {"deleted", "sleeping"}

\* C11: the wait of destroy() ends exactly when the object is gone. Once the
\* object is absent the wait that is going on leads to the return of
\* destroy() (as far as the poll log of the model reaches); the wait is left
\* only by a poll that finds the object absent; and while the object stays
\* present for ever destroy() never returns.
C11_WaitEndsIffAbsent ==
    /\ [](( InWait /\ ~nsPresent /\ Len(nsPollLog) < MaxPolls)
            => <>(nsPc = "returned"))
    /\ [][(InWait /\ ~InWait') =>
            (nsPc = "deleted" /\ ~nsPresent /\ nsPc' = "returned")]_vars
    /\ ([]nsPresent => [](nsPc # "returned"))

\* the daemon set of the log agent went away during the first sleep
C11_Witness ==
    /\ nsPc = "returned"
    /\ nsKind = "LogAgent"
    /\ nsPollLog = <<TRUE, FALSE>>
    /\ nsSleeps = 1
    /\ ~nsPresent

\* C12: ClusterNodes.create() / destroy() returns only after the call on
\* every one of the nGroups node groups has returned, and a node group's call
\* that raises makes ClusterNodes' call raise, which ends the run as failed.
C12_NodesJoin ==
    \A j \in 1..Len(calls) :
        /\ calls[j] = Ev("ret", "nodes", 0) =>
            /\ \A g \in 1..nGroups :
                \E i \in 1..(j - 1) : calls[i] = Ev("ret", "nodegroup", g)
            /\ \A i \in 1..(j - 1) : calls[i].ev # "raise"
        /\ (calls[j].ev = "raise" /\ calls[j].who = "nodegroup") =>
            /\ orchPc \in {"failed", "idle"}
            /\ Len(calls) = j + 1
            /\ calls[j + 1] = Ev("raise", "nodes", 0)

\* create() of two node groups has returned, and so has the run
C12_Witness ==
    /\ orchOp = "create"
    /\ orchPc = "done"
    /\ nGroups = MaxGroups
    /\ \E j \in 1..Len(calls) : calls[j] = Ev("ret", "nodes", 0)
    /\ \A g \in 1..nGroups : Res("nodegroup", g) \in infra

\* the provider resources a stage that returned has created or destroyed
Processed(stage) ==
    IF stage = "nodes" THEN { Res("nodegroup", g) : g \in 1..nGroups }
    ELSE {Res(stage, 0)}

\* C13: when the call on stage k raises, the run ends as failed at once: the
\* stages called are those before k, each returned, and k; the failing step
\* changes no provider resource; what the stages before k (and the node
\* groups before the failing one) created is still there, what they destroyed
\* is still gone; and after the failure the run calls nothing more.
C13_AbortLeavesPrefix ==
    [][/\ (orchPc' = "failed" /\ orchPc # "failed") =>
            LET s == SelectSeq(calls', LAMBDA e : e.who # "nodegroup")
                ord == RunOrder(orchOp)
                k == orchIdx
            IN /\ infra' = infra
               /\ orchIdx' = k
               /\ Len(s) = 2 * k
               /\ s[2 * k] = Ev("raise", ord[k], 0)
               /\ \A i \in 1..k : s[2 * i - 1] = Ev("call", ord[i], 0)
               /\ \A i \in 1..(k - 1) :
                    /\ s[2 * i] = Ev("ret", ord[i], 0)
                    /\ \A r \in Processed(ord[i]) :
                            (r \in infra') <=> (orchOp = "create")
               /\ ord[k] = "nodes" =>
                    \A g \in 1..(ngIdx - 1) :
                        (Res("nodegroup", g) \in infra') <=> (orchOp = "create")
       /\ orchPc = "failed" => (calls' = calls /\ infra' = infra)]_vars

\* create() of the master raised: the network and etcd stay created
C13_Witness ==
    /\ orchPc = "failed"
    /\ orchOp = "create"
    /\ orchIdx = 3
    /\ calls[Len(calls)] = Ev("raise", "master", 0)
    /\ infra = {Res("network", 0), Res("etcd", 0)}

\* ---- claims about the component ----

IsCall(i, op, kind) == trace[i].call.op = op /\ trace[i].call.kind = kind
Returned(i, op, kind) == IsCall(i, op, kind) /\ trace[i].ok
Key == generate_deployment_key(manifest, cfg, remote)
Live == CHOOSE r \in remote.rcs : TRUE
Writes == {"create", "update", "delete", "scale", "rolling_update"}

\* C2: can_upgrade() returns false exactly when the deployment label of the
\* workload now running equals the key computed from the rendered documents,
\* and an upgrade() that finds it false updates no secret and does not call
\* the rolling updater.
C2_UpgradeGating ==
    /\ (lastOp = "can_upgrade" /\ result \in {"true", "false"}
            /\ Cardinality(remote.rcs) = 1)
        => ((result = "false") <=> (Live.deployment = Key))
    /\ (lastOp = "upgrade" /\ result = "noop")
        => \A i \in 1..Len(trace) : trace[i].call.op \notin Writes

\* C3: after a create() that returned, a destroy() under the same
\* configuration scales down and deletes the workload create() made, the one
\* named with the key, and when it returns no workload, service or secret of
\* the component is left.
C3_DestroyRemovesCreated ==
    [][(lastOp = "create" /\ result = "ok" /\ lastOp' = "destroy")
        => /\ \A i \in 1..Len(trace') :
                trace'[i].call.kind = RcKind => trace'[i].call.obj.suffix = Key
           /\ result' = "ok" =>
                (remote'.rcs = {} /\ remote'.services = {} /\ remote'.secrets = {})]_vars

\* C4: the running workload is looked up anew by every call: right after an
\* upgrade() that returned, can_upgrade() on the same object and configuration
\* is false, and a second upgrade() does nothing.
C4_RunningLookedUpAnew ==
    [][(lastOp = "upgrade" /\ result = "ok")
        => /\ lastOp' = "can_upgrade" => result' = "false"
           /\ (lastOp' = "upgrade" /\ steps' = steps + 1)
                => (result' = "noop" /\ remote' = remote)]_vars

\* C5: after any sequence of create(), upgrade() and destroy() calls that all
\* returned, with the configuration changing in between, at most one
\* workload of the component exists.
C5_AtMostOneWorkload == clean => Cardinality(remote.rcs) <= 1

\* C6: destroy() scales the workload to zero, deletes it, then deletes the
\* services, then the secrets: nothing else is deleted before the delete of
\* the workload has returned.
C6_DestroyOrder ==
    lastOp = "destroy" =>
        \A j \in 1..Len(trace) :
            /\ IsCall(j, "delete", RcKind) =>
                \E i \in 1..(j - 1) :
                    /\ Returned(i, "scale", RcKind)
                    /\ trace[i].call.obj.replicas = 0
                    /\ trace[i].call.obj.suffix = trace[j].call.obj.suffix
            /\ trace[j].call.kind \in {"Service", "Secret"} =>
                /\ trace[j].call.op = "delete"
                /\ \E i \in 1..(j - 1) : Returned(i, "delete", RcKind)
            /\ IsCall(j, "delete", "Service") =>
                \A i \in 1..(j - 1) : ~IsCall(i, "delete", "Secret")

C6_Witness ==
    /\ lastOp = "destroy"
    /\ result = "ok"
    /\ \E j \in 1..Len(trace) : Returned(j, "delete", "Service")
    /\ \E j \in 1..Len(trace) : Returned(j, "delete", "Secret")
    /\ \E j \in 1..Len(trace) : Returned(j, "delete", RcKind)

\* C7: create() makes the disk (only for a component that requires one),
\* then every secret, then every service, and the workload last.
C7_CreateOrder ==
    lastOp = "create" =>
        \A j \in 1..Len(trace) :
            /\ trace[j].call.op = "create_disk" => manifest.requires_disk
            /\ (manifest.requires_disk /\ trace[j].call.op = "create"
                    /\ trace[j].call.kind \in {"Secret", "Service", RcKind})
                => \E i \in 1..(j - 1) : Returned(i, "create_disk", "Provider")
            /\ IsCall(j, "create", "Service") =>
                \A k \in 1..Len(manifest.secrets) :
                    \E i \in 1..(j - 1) :
                        /\ Returned(i, "create", "Secret")
                        /\ trace[i].call.obj.name = manifest.secrets[k]
            /\ IsCall(j, "create", RcKind) =>
                /\ \A k \in 1..Len(manifest.secrets) :
                    \E i \in 1..(j - 1) :
                        /\ Returned(i, "create", "Secret")
                        /\ trace[i].call.obj.name = manifest.secrets[k]
                /\ \A k \in 1..Len(manifest.services) :
                    \E i \in 1..(j - 1) :
                        /\ Returned(i, "create", "Service")
                        /\ trace[i].call.obj.name = manifest.services[k]
                /\ \A i \in (j + 1)..Len(trace) : trace[i].call.op # "create"

C7_Witness ==
    /\ lastOp = "create"
    /\ result = "ok"
    /\ manifest.requires_disk
    /\ remote.disk
    /\ remote.secrets # {}
    /\ remote.services # {}
    /\ remote.rcs # {}

\* C8: create() of a component that requires a disk and has no disk
\* configuration raises before it makes any call on the cluster API or the
\* provider, and leaves the cluster and the provider as they were.
C8_DiskPrecondition ==
    [][(lastOp' = "create" /\ steps' = steps + 1
            /\ manifest.requires_disk /\ ~cfg.disk)
        => (result' = "raised" /\ trace' = <<>> /\ remote' = remote)]_vars

C8_Witness ==
    /\ lastOp = "create"
    /\ manifest.requires_disk
    /\ ~cfg.disk
    /\ result = "raised"
    /\ trace = <<>>

\* C9: Router.create() makes the load balancer, on ports 80 and 443, before
\* any secret, service or workload; Router.destroy() destroys it only after
\* the workload, the services and the secrets were torn down, and not at all
\* when that raised.
C9_RouterLoadBalancer ==
    manifest.router =>
        /\ lastOp = "create" =>
            \A j \in 1..Len(trace) :
                trace[j].call.kind \in {"Secret", "Service", RcKind} =>
                    \E i \in 1..(j - 1) :
                        /\ Returned(i, "create_loadbalancer", "Provider")
                        /\ trace[i].call.obj.ports = <<80, 443>>
        /\ lastOp = "destroy" =>
            \A j \in 1..Len(trace) :
                trace[j].call.op = "destroy_loadbalancer" =>
                    /\ \A i \in 1..(j - 1) : trace[i].ok
                    /\ \E i \in 1..(j - 1) : Returned(i, "delete", RcKind)
                    /\ \A k \in 1..Len(manifest.services) :
                        \E i \in 1..(j - 1) :
                            /\ Returned(i, "delete", "Service")
                            /\ trace[i].call.obj.name = manifest.services[k]
                    /\ \A k \in 1..Len(manifest.secrets) :
                        \E i \in 1..(j - 1) :
                            /\ Returned(i, "delete", "Secret")
                            /\ trace[i].call.obj.name = manifest.secrets[k]

\* the router was created, lost its unstamped workload and its load balancer
C9_Witness ==
    /\ manifest.router
    /\ lastOp = "destroy"
    /\ result = "ok"
    /\ ~remote.lb
    /\ remote.rcs # {}
    /\ Returned(Len(trace), "destroy_loadbalancer", "Provider")

\* the object of call c is in the cluster R
Exists(R, c) ==
    CASE c.kind = "Secret" -> HasSecret(R, c.obj.name)
      [] c.kind = "Service" -> c.obj.name \in R.services
      [] c.kind = RcKind -> HasRC(R, c.obj.suffix)
      [] OTHER -> FALSE

\* C14: a create() right after a create() that returned, with the same
\* configuration, raises and leaves the workloads as they were; unless a
\* provider call (disk, load balancer) failed first, the call that raises is
\* a create of a secret, service or workload that is already in the cluster.
C14_SecondCreateFails ==
    [][(lastOp = "create" /\ result = "ok" /\ lastOp' = "create"
            /\ steps' = steps + 1)
        => /\ result' = "raised"
           /\ remote'.rcs = remote.rcs
           /\ Cardinality({ r \in remote'.rcs : r.suffix = Key }) = 1
           /\ Len(trace') > 0
           /\ LET last == trace'[Len(trace')] IN
                /\ ~last.ok
                /\ \A i \in 1..(Len(trace') - 1) : trace'[i].ok
                /\ last.call.kind # "Provider" =>
                    /\ last.call.op = "create"
                    /\ last.call.kind \in {"Secret", "Service", RcKind}
                    /\ Exists(remote, last.call)]_vars

\* a manifest with nothing but a workload: the second create() raised at the
\* create of the workload itself
C14_Witness ==
    /\ lastOp = "create"
    /\ result = "raised"
    /\ steps = 2
    /\ manifest.secrets = <<>>
    /\ manifest.services = <<>>
    /\ Len(trace) > 0
    /\ IsCall(Len(trace), "create", RcKind)
    /\ ~trace[Len(trace)].ok
    /\ trace[Len(trace)].call.obj.suffix = Key
    /\ Cardinality(remote.rcs) = 1
    /\ HasRC(remote, Key)

\* C15: the key depends on the configuration only: in every state of the
\* cluster the component can bring about (objects present or absent, a live
\* secret holding other data than the rendered one, the workload under the
\* rendered name scaled down), and after any number of renderings by earlier
\* calls, generate_deployment_key() returns for every configuration what it
\* returns for it against an empty cluster, and a step that leaves the
\* configuration alone leaves the key alone.
C15_KeyIsPure ==
    /\ [](\A c \in Configs(manifest) :
            generate_deployment_key(manifest, c, remote)
                = generate_deployment_key(manifest, c, EmptyRemote))
    /\ [][cfg' = cfg =>
            generate_deployment_key(manifest, cfg, remote')
                = generate_deployment_key(manifest, cfg, remote)]_vars

\* the live secret that the router's workload mounts holds other data than
\* the secret document rendered now, and a workload is running
C15_Witness ==
    /\ manifest.router
    /\ \E x \in remote.secrets : x.name = "s1" /\ x.data # cfg.data["s1"]
    /\ remote.rcs # {}
    /\ Len(trace) > 0

\* the secret documents of the manifest that a volume of the workload
\* names by secretName
MountedSecretDocs(m, c) ==
    { d \in { RenderSecrets(m, c)[i] : i \in 1..Len(m.secrets) } :
        \E j \in 1..Len(m.volumes) :
            m.volumes[j].kind = "secret" /\ m.volumes[j].secretName = d.name }

Rolling(tr) == { i \in 1..Len(tr) : tr[i].call.op = "rolling_update" }

\* C18: an upgrade() that finds can_upgrade() true updates every secret of
\* the manifest and only then calls the rolling updater, once, with the
\* workload that was running when upgrade() was called and the newly rendered
\* workload stamped with the key; the two differ in name and in the three
\* deployment labels.
C18_UpgradeSequence ==
    [][(lastOp' = "upgrade" /\ steps' = steps + 1
            /\ Cardinality(remote.rcs) = 1
            /\ can_upgrade(manifest, cfg, remote, cache))
        => /\ Cardinality(Rolling(trace')) <= 1
           /\ result' = "ok" => Cardinality(Rolling(trace')) = 1
           /\ \A j \in Rolling(trace') :
                /\ trace'[j].call.obj.old = Live
                /\ trace'[j].call.obj.new = get_rc(manifest, cfg)
                /\ trace'[j].call.obj.new.suffix = Key
                /\ trace'[j].call.obj.new.suffix # Live.suffix
                /\ trace'[j].call.obj.new.deployment # Live.deployment
                /\ trace'[j].call.obj.new.selector # Live.selector
                /\ trace'[j].call.obj.new.podlabel # Live.podlabel
                /\ \A k \in 1..Len(manifest.secrets) :
                    \E i \in 1..(j - 1) :
                        /\ trace'[i].call.op = "update"
                        /\ trace'[i].call.kind = "Secret"
                        /\ trace'[i].ok
                        /\ trace'[i].call.obj = RenderSecrets(manifest, cfg)[k]
                /\ \A i \in (j + 1)..Len(trace') : trace'[i].call.op \notin Writes]_vars

\* the workload obj carries key in its name and in its three labels
Stamped(obj, key) ==
    /\ obj.suffix = key
    /\ obj.deployment = key
    /\ obj.selector = key
    /\ obj.podlabel = key

\* C19: the workload that create() creates and that upgrade() hands to the
\* rolling updater is named '<rendered name>-<key>' and has the key as its
\* metadata label, its selector and its pod-template label, the key being
\* the deployment key of the rendering; and can_upgrade() right after a
\* create() that returned, the configuration unchanged, all earlier calls
\* having returned and nobody else having written, returns false.
C19_StampedWorkload ==
    [][/\ (lastOp' \in {"create", "upgrade"} /\ steps' = steps + 1) =>
            \A i \in 1..Len(trace') :
                /\ (trace'[i].call.op = "create" /\ trace'[i].call.kind = RcKind)
                    => Stamped(trace'[i].call.obj, Key)
                /\ trace'[i].call.op = "rolling_update"
                    => Stamped(trace'[i].call.obj.new, Key)
       /\ (clean /\ lastOp = "create" /\ result = "ok" /\ lastOp' = "can_upgrade")
            => result' = "false"]_vars

\* C20: get_api_objs(), has_secrets(), has_service(),
\* generate_deployment_key() and can_upgrade() leave the cluster and the
\* provider as they were: the only calls they make are the reads of
\* get_api_objs() and the label query.
C20_QueriesOnlyRead ==
    [][(lastOp' \in QueryOps \cup {"can_upgrade"} /\ steps' = steps + 1)
        => /\ remote' = remote
           /\ \A i \in 1..Len(trace') :
                /\ trace'[i].call.op \in {"get_api_objs", "query"}
                /\ trace'[i].call.op \notin Writes
                /\ trace'[i].call.kind \notin {"Provider", "RollingUpdater"}]_vars

\* can_upgrade() answered true about a running workload while the secret in
\* the cluster is not the rendered one: nothing was brought up to date
C20_Witness ==
    /\ lastOp = "can_upgrade"
    /\ result = "true"
    /\ \E x \in remote.secrets : x.data # cfg.data[x.name]
    /\ Cardinality(remote.rcs) = 1
    /\ \E i \in 1..Len(trace) : trace[i].call.op = "query" /\ trace[i].ok

====
